---- MODULE Spec2Model ----
(***************************************************************************)
(* Model of the disassembly reduction engine of run_cpp_compilers.py:      *)
(* parse_instruction, get_function_definitions, get_used_functions,        *)
(* get_cleaned_function(s), write_cleaned_function and                     *)
(* write_cleaned_disasm.                                                   *)
(*                                                                         *)
(* Text.  A Python string is modelled as a sequence of tokens (its maximal *)
(* runs of non-whitespace characters, in order) and a token as a sequence  *)
(* of one-character strings.  A raw line is such a string.  Python indices *)
(* (line_start_index, line_index) keep their 0-based values; the line with *)
(* Python index i is lines[i + 1].  An optional value (None or x) is the   *)
(* empty sequence or the one-element sequence <<x>>.                       *)
(***************************************************************************)
EXTENDS Integers, Sequences, FiniteSets, TLC

VARIABLES
    lines,                \* write_cleaned_disasm: the raw listing
    root_function_names,  \* write_cleaned_disasm: the root names
    pc,                   \* position in write_cleaned_disasm / get_cleaned_function
    definitions,          \* write_cleaned_disasm: result of get_function_definitions
    used_functions,       \* the list get_used_functions appends to
    stack,                \* call stack of get_used_functions invocations
    definition_index,     \* get_cleaned_functions: position of the loop of line 120
    cleaned_functions,    \* get_cleaned_functions: the list of CleanedFunction
    function_index,       \* write_cleaned_disasm: position of the loop of line 145
    output,               \* what has been written to output_file
    function,             \* get_cleaned_function: its argument `function`
    instruction_pairs,    \* get_cleaned_function: the list of pairs
    index,                \* get_cleaned_function: position of the loop of line 88
    next_label_index      \* get_cleaned_function: its local counter

vars == <<lines, root_function_names, pc, definitions, used_functions, stack,
          definition_index, cleaned_functions, function_index, output,
          function, instruction_pairs, index, next_label_index>>

\* ------------------------------------------------------------------ bounds

MaxLines == 5

MaxRoots == 3

MaxCleanLines == 6

ColumnWidth == 12

\* ------------------------------------------------------------------- text

None == <<>>

Some(x) == <<x>>

Min(S) == CHOOSE x \in S : \A y \in S : x <= y

Front(s) == SubSeq(s, 1, Len(s) - 1)

Last(s) == s[Len(s)]

EndsWith(token, c) == Len(token) >= 1 /\ token[Len(token)] = c

StartsWith(token, c) == Len(token) >= 1 /\ token[1] = c

\* str(n) for n >= 0, as a token
RECURSIVE Decimal(_)
Decimal(n) ==
    LET digit == <<"0", "1", "2", "3", "4", "5", "6", "7", "8", "9">>[(n % 10) + 1]
    IN  IF n < 10 THEN <<digit>> ELSE Append(Decimal(n \div 10), digit)

\* f'$L{next_label_index}'
LabelText(n) == << <<"$", "L">> \o Decimal(n) >>

\* ---------------------------------------------------------- parse_instruction

Instruction(byte_offset, operation, operands) ==
    [byte_offset |-> byte_offset, operation |-> operation, operands |-> operands]

\* '^\s*(\S+):\s+(\S+)\s*(.*?)$': the first token is some text and a colon,
\* a second token follows; the operands are the rest of the line.
parse_instruction(line) ==
    IF Len(line) >= 2 /\ Len(line[1]) >= 2 /\ EndsWith(line[1], ":")
    THEN Some(Instruction(<<Front(line[1])>>, line[2], SubSeq(line, 3, Len(line))))
    ELSE None

\* ---------------------------------------------------- get_function_definitions

FunctionDefinition(name, line_start_index, line_count) ==
    [name |-> name, line_start_index |-> line_start_index, line_count |-> line_count]

\* m1 = re.search('^(.*):\s*$', line)
HeaderMatch(line) == Len(line) >= 1 /\ EndsWith(Last(line), ":")

\* m1.group(1): the line without its final colon
HeaderName(line) == Append(Front(line), Front(Last(line)))

\* m2 = re.search('^(\S+)\s+\(.*\)$', function_name)
SignatureMatch(function_name) ==
    /\ Len(function_name) >= 2
    /\ StartsWith(function_name[2], "(")
    /\ EndsWith(Last(function_name), ")")
    /\ (Len(function_name) = 2 => Len(function_name[2]) >= 2)

ShortName(function_name) ==
    IF SignatureMatch(function_name) THEN <<function_name[1]>> ELSE function_name

\* The inner loop (lines 52-58): where it leaves line_index, and whether it
\* reached a non-instruction line (the break) or ran off the listing.
RECURSIVE BodyScan(_, _)
BodyScan(ls, line_index) ==
    IF line_index < Len(ls)
    THEN IF parse_instruction(ls[line_index + 1]) = None
         THEN [line_index |-> line_index, closed |-> TRUE]
         ELSE BodyScan(ls, line_index + 1)
    ELSE [line_index |-> line_index, closed |-> FALSE]

\* Mutant of LineCount: the closing line counted into the function.
LineCountWithClosingLine(line_index, line_start_index) == line_index - line_start_index + 1

\* line_count = line_index - line_start_index
LineCount(line_index, line_start_index) == line_index - line_start_index

\* Where the outer loop resumes after a function: line 60 steps past the line
\* the inner loop stopped at.
ResumeIndex(line_index) == line_index + 1

\* The outer loop (lines 38-60) from line_index on, with the definitions so far.
RECURSIVE ScanFrom(_, _, _)
ScanFrom(ls, line_index, defs) ==
    IF line_index < Len(ls)
    THEN IF HeaderMatch(ls[line_index + 1])
         THEN LET short_name == ShortName(HeaderName(ls[line_index + 1]))
                  line_start_index == line_index
                  body == BodyScan(ls, line_index + 1)
                  found == FunctionDefinition(short_name, line_start_index,
                               LineCount(body.line_index, line_start_index))
              IN  ScanFrom(ls, ResumeIndex(body.line_index),
                           IF body.closed THEN Append(defs, found) ELSE defs)
         ELSE ScanFrom(ls, line_index + 1, defs)
    ELSE defs

get_function_definitions(ls) == ScanFrom(ls, 0, <<>>)

\* ---------------------------------------------------- find_function_definition

find_function_definition(function_definitions, name) ==
    LET hits == {i \in 1..Len(function_definitions) : function_definitions[i].name = name}
    IN  IF hits = {} THEN None ELSE Some(function_definitions[Min(hits)])

\* ------------------------------------------------------- get_cleaned_function

is_jump(operation) == StartsWith(operation, "j")

CleanedInstruction(label, operation, operands) ==
    [label |-> label, operation |-> operation, operands |-> operands]

CleanedFunction(name, instructions) == [name |-> name, instructions |-> instructions]

\* range(function.line_start_index + 1, function.line_start_index + function.line_count)
BodyRange(f) == (f.line_start_index + 1) .. (f.line_start_index + f.line_count - 1)

\* lines[line_index] raises IndexError outside the listing, and the attribute
\* reads of lines 76 and 86 raise on the None of a failed parse.
BodyReadable(ls, f) ==
    \A line_index \in BodyRange(f) :
        line_index < Len(ls) /\ parse_instruction(ls[line_index + 1]) # None

\* Lines 83-87: one (raw, cleaned) pair per body line.
BuildPairs(ls, f) ==
    [k \in 1..(f.line_count - 1) |->
        LET instruction == parse_instruction(ls[f.line_start_index + k + 1])[1]
        IN  <<instruction, CleanedInstruction(None, instruction.operation, instruction.operands)>>]

\* Lines 93-95: the positions whose raw byte_offset equals the jump's operands.
TargetIndexes(pairs, target_byte_offset) ==
    {t \in 1..Len(pairs) : pairs[t][1].byte_offset = target_byte_offset}

\* Mutant of FindTarget: position 0 of the list instead of None when nothing matches.
FindTargetOrFirst(pairs, target_byte_offset) ==
    IF TargetIndexes(pairs, target_byte_offset) = {}
    THEN Some(1)
    ELSE Some(Min(TargetIndexes(pairs, target_byte_offset)))

\* The first matching position (the loop of line 93 breaks at it), or None.
FindTarget(pairs, target_byte_offset) ==
    IF TargetIndexes(pairs, target_byte_offset) = {}
    THEN None
    ELSE Some(Min(TargetIndexes(pairs, target_byte_offset)))

\* Lines 96-110 for the jump at position i and its target at position t: the
\* new pairs and the new counter.  The jump's pair is stored first (line 109),
\* the target's pair second (line 110).
RewriteJump(pairs, i, t, n) ==
    LET raw_instruction == pairs[i][1]
        raw_target_instruction == pairs[t][1]
        old_cleaned_instruction == pairs[i][2]
        old_cleaned_target_instruction == pairs[t][2]
        fresh == old_cleaned_target_instruction.label = None
        label == IF fresh THEN LabelText(n) ELSE old_cleaned_target_instruction.label[1]
        new_cleaned_target_instruction ==
            IF fresh
            THEN CleanedInstruction(Some(label), old_cleaned_target_instruction.operation,
                                    old_cleaned_target_instruction.operands)
            ELSE old_cleaned_target_instruction
        new_cleaned_instruction ==
            CleanedInstruction(old_cleaned_instruction.label,
                               old_cleaned_instruction.operation, label)
        stored == [pairs EXCEPT ![i] = <<raw_instruction, new_cleaned_instruction>>]
    IN  [pairs |-> [stored EXCEPT ![t] = <<raw_target_instruction, new_cleaned_target_instruction>>],
         next_label_index |-> IF fresh THEN n + 1 ELSE n]

\* One iteration of the loop of line 88, at position i.
RewriteIndex(pairs, i, n) ==
    LET raw_instruction == pairs[i][1]
        target == FindTarget(pairs, raw_instruction.operands)
    IN  IF is_jump(raw_instruction.operation) /\ target # None
        THEN RewriteJump(pairs, i, target[1], n)
        ELSE [pairs |-> pairs, next_label_index |-> n]

\* The loop of line 88 from position i to the end.
RECURSIVE RewriteFrom(_, _, _)
RewriteFrom(pairs, i, n) ==
    IF i > Len(pairs)
    THEN [pairs |-> pairs, next_label_index |-> n]
    ELSE LET step == RewriteIndex(pairs, i, n)
         IN  RewriteFrom(step.pairs, i + 1, step.next_label_index)

\* Lines 113-114
CleanedOf(f, pairs) == CleanedFunction(f.name, [k \in 1..Len(pairs) |-> pairs[k][2]])

get_cleaned_function(ls, f, n) == CleanedOf(f, RewriteFrom(BuildPairs(ls, f), 1, n).pairs)

\* ----------------------------------------------------- write_cleaned_function

Max(a, b) == IF a >= b THEN a ELSE b

\* `if (instruction.label)`: neither None nor the empty string
Truthy(label) == label # None /\ label[1] # <<>>

WrittenInstruction(instruction) ==
    (IF Truthy(instruction.label)
     THEN <<[kind |-> "label", text |-> instruction.label[1]]>>
     ELSE <<>>)
    \o <<[kind |-> "instruction", operation |-> instruction.operation,
          pad |-> Max(ColumnWidth - Len(instruction.operation), 0),
          operands |-> instruction.operands]>>

RECURSIVE WrittenInstructions(_)
WrittenInstructions(instructions) ==
    IF instructions = <<>>
    THEN <<>>
    ELSE WrittenInstruction(Head(instructions)) \o WrittenInstructions(Tail(instructions))

write_cleaned_function(cleaned_function) ==
    <<[kind |-> "name", text |-> cleaned_function.name]>>
    \o WrittenInstructions(cleaned_function.instructions)
    \o <<[kind |-> "blank"]>>

\* ------------------------------------------------------------------ inputs

Token_f == <<"f">>

Token_g == <<"g">>

Line_blank == <<>>

\* "f:"
Line_header_f == << <<"f", ":">> >>

\* "g (void):"
Line_header_g == << <<"g">>, <<"(", "v", "o", "i", "d", ")", ":">> >>

\* "  0: call g"
Line_call_g == << <<"0", ":">>, <<"c", "a", "l", "l">>, <<"g">> >>

\* "  0: jmp 0"
Line_jmp_0 == << <<"0", ":">>, <<"j", "m", "p">>, <<"0">> >>

\* "  0: je 1"
Line_je_1 == << <<"0", ":">>, <<"j", "e">>, <<"1">> >>

\* "  1: ret"
Line_ret == << <<"1", ":">>, <<"r", "e", "t">> >>

SeqsUpTo(S, n) == UNION {[1..k -> S] : k \in 0..n}

\* The lines of the listings given to write_cleaned_disasm
ListingLines == {Line_blank, Line_header_f, Line_header_g, Line_call_g, Line_jmp_0}

RootNames == {<<Token_f>>, <<Token_g>>}

\* ------------------------------------------------------- get_used_functions

\* One invocation of get_used_functions: its current_function_names, the
\* position of the loop of line 68 (1-based), and, while the loop of line 74
\* runs, the definition d and the loop's line_index.
Frame(current_function_names) ==
    [current_function_names |-> current_function_names, position |-> 1,
     d |-> None, line_index |-> 0]

Top == stack[Len(stack)]

InLoop68 == pc = "resolve" /\ stack # <<>> /\ Top.d = None

InLoop74 == pc = "resolve" /\ stack # <<>> /\ Top.d # None

current_function_name == Top.current_function_names[Top.position]

\* The stack after the running invocation returns.
Return(stk) == Front(stk)

\* pc after get_used_functions has changed the stack to stk: line 144 follows
\* the return of the outermost invocation.
AfterResolve(stk) == IF stk = <<>> THEN "clean" ELSE "resolve"

\* Mutant of OnUsed: `continue` in place of `return`.
OnUsedContinue(stk) == [stk EXCEPT ![Len(stk)].position = @ + 1]

\* Lines 69-70: the name is already in used_functions.
OnUsed(stk) == Return(stk)

\* Mutant of AlreadyUsed: no visited check.
NeverUsed(used, name) == FALSE

\* The test of line 69
AlreadyUsed(used, name) == find_function_definition(used, name) # None

\* Line 68: the loop is exhausted and the invocation returns.
UsedLoopEnd ==
    /\ InLoop68
    /\ Top.position > Len(Top.current_function_names)
    /\ stack' = Return(stack)
    /\ pc' = AfterResolve(stack')
    /\ UNCHANGED <<lines, root_function_names, definitions, used_functions,
                   definition_index, cleaned_functions, function_index, output,
                   function, instruction_pairs, index, next_label_index>>

UsedReturn ==
    /\ InLoop68
    /\ Top.position <= Len(Top.current_function_names)
    /\ AlreadyUsed(used_functions, current_function_name)
    /\ stack' = OnUsed(stack)
    /\ pc' = AfterResolve(stack')
    /\ UNCHANGED <<lines, root_function_names, definitions, used_functions,
                   definition_index, cleaned_functions, function_index, output,
                   function, instruction_pairs, index, next_label_index>>

\* Lines 71-72 with d None: on to the next name.
UsedUndefined ==
    /\ InLoop68
    /\ Top.position <= Len(Top.current_function_names)
    /\ ~AlreadyUsed(used_functions, current_function_name)
    /\ find_function_definition(definitions, current_function_name) = None
    /\ stack' = [stack EXCEPT ![Len(stack)].position = @ + 1]
    /\ UNCHANGED <<lines, root_function_names, pc, definitions, used_functions,
                   definition_index, cleaned_functions, function_index, output,
                   function, instruction_pairs, index, next_label_index>>

\* Lines 71-74: d is appended and the scan of its body starts.
UsedAppend ==
    /\ InLoop68
    /\ Top.position <= Len(Top.current_function_names)
    /\ ~AlreadyUsed(used_functions, current_function_name)
    /\ LET d == find_function_definition(definitions, current_function_name)
       IN  /\ d # None
           /\ used_functions' = Append(used_functions, d[1])
           /\ stack' = [stack EXCEPT ![Len(stack)].d = d,
                                     ![Len(stack)].line_index = d[1].line_start_index + 1]
    /\ UNCHANGED <<lines, root_function_names, pc, definitions,
                   definition_index, cleaned_functions, function_index, output,
                   function, instruction_pairs, index, next_label_index>>

InBody == Top.line_index < Top.d[1].line_start_index + Top.d[1].line_count

Readable(ls, line_index) ==
    line_index < Len(ls) /\ parse_instruction(ls[line_index + 1]) # None

\* Lines 75-77 on a call: the recursive invocation on [instruction.operands].
ScanCall ==
    /\ InLoop74 /\ InBody
    /\ Readable(lines, Top.line_index)
    /\ LET instruction == parse_instruction(lines[Top.line_index + 1])[1]
       IN  /\ instruction.operation = <<"c", "a", "l", "l">>
           /\ stack' = Append([stack EXCEPT ![Len(stack)].line_index = @ + 1],
                              Frame(<<instruction.operands>>))
    /\ UNCHANGED <<lines, root_function_names, pc, definitions, used_functions,
                   definition_index, cleaned_functions, function_index, output,
                   function, instruction_pairs, index, next_label_index>>

\* Lines 75-76 on any other line of the body; reading a line outside the
\* listing or the operation of a failed parse raises.
ScanOther ==
    /\ InLoop74 /\ InBody
    /\ IF Readable(lines, Top.line_index)
       THEN /\ parse_instruction(lines[Top.line_index + 1])[1].operation # <<"c", "a", "l", "l">>
            /\ stack' = [stack EXCEPT ![Len(stack)].line_index = @ + 1]
            /\ pc' = pc
       ELSE /\ pc' = "error"
            /\ stack' = stack
    /\ UNCHANGED <<lines, root_function_names, definitions, used_functions,
                   definition_index, cleaned_functions, function_index, output,
                   function, instruction_pairs, index, next_label_index>>

\* Line 74: the body is exhausted; back to the loop of line 68.
ScanEnd ==
    /\ InLoop74 /\ ~InBody
    /\ stack' = [stack EXCEPT ![Len(stack)].d = None,
                              ![Len(stack)].line_index = 0,
                              ![Len(stack)].position = @ + 1]
    /\ UNCHANGED <<lines, root_function_names, pc, definitions, used_functions,
                   definition_index, cleaned_functions, function_index, output,
                   function, instruction_pairs, index, next_label_index>>

\* ----------------------------------------------------- write_cleaned_disasm

\* Lines 141-143: the scan, then the call of get_used_functions on the roots.
GetFunctionDefinitions ==
    /\ pc = "scan"
    /\ definitions' = get_function_definitions(lines)
    /\ stack' = <<Frame(root_function_names)>>
    /\ pc' = "resolve"
    /\ UNCHANGED <<lines, root_function_names, used_functions,
                   definition_index, cleaned_functions, function_index, output,
                   function, instruction_pairs, index, next_label_index>>

\* Mutant of CleaningOrder: the loop runs over used_functions.
DiscoveryOrder(function_definitions, used) == used

\* The list the loop of line 120 runs over.
CleaningOrder(function_definitions, used) == function_definitions

\* The counter value line 123 passes: the local of line 117, never reassigned.
PassedLabelIndex(cleaned) == 0

\* Lines 120-123 for a definition whose name is in used_functions.
CleanUsed ==
    /\ pc = "clean"
    /\ definition_index <= Len(CleaningOrder(definitions, used_functions))
    /\ LET functionDefinition == CleaningOrder(definitions, used_functions)[definition_index]
           found == find_function_definition(used_functions, functionDefinition.name)
       IN  /\ found # None
           /\ IF BodyReadable(lines, found[1])
              THEN /\ cleaned_functions' = Append(cleaned_functions,
                          get_cleaned_function(lines, found[1], PassedLabelIndex(cleaned_functions)))
                   /\ definition_index' = definition_index + 1
                   /\ pc' = pc
              ELSE /\ pc' = "error"
                   /\ UNCHANGED <<cleaned_functions, definition_index>>
    /\ UNCHANGED <<lines, root_function_names, definitions, used_functions, stack,
                   function_index, output,
                   function, instruction_pairs, index, next_label_index>>

\* Lines 120-122 for a definition whose name is not in used_functions.
CleanSkip ==
    /\ pc = "clean"
    /\ definition_index <= Len(CleaningOrder(definitions, used_functions))
    /\ LET functionDefinition == CleaningOrder(definitions, used_functions)[definition_index]
       IN  find_function_definition(used_functions, functionDefinition.name) = None
    /\ definition_index' = definition_index + 1
    /\ UNCHANGED <<lines, root_function_names, pc, definitions, used_functions, stack,
                   cleaned_functions, function_index, output,
                   function, instruction_pairs, index, next_label_index>>

\* Line 124
CleanReturn ==
    /\ pc = "clean"
    /\ definition_index > Len(CleaningOrder(definitions, used_functions))
    /\ pc' = "write"
    /\ UNCHANGED <<lines, root_function_names, definitions, used_functions, stack,
                   definition_index, cleaned_functions, function_index, output,
                   function, instruction_pairs, index, next_label_index>>

\* Lines 145-146
WriteFunction ==
    /\ pc = "write"
    /\ function_index <= Len(cleaned_functions)
    /\ output' = output \o write_cleaned_function(cleaned_functions[function_index])
    /\ function_index' = function_index + 1
    /\ UNCHANGED <<lines, root_function_names, pc, definitions, used_functions, stack,
                   definition_index, cleaned_functions,
                   function, instruction_pairs, index, next_label_index>>

WriteReturn ==
    /\ pc = "write"
    /\ function_index > Len(cleaned_functions)
    /\ pc' = "done"
    /\ UNCHANGED <<lines, root_function_names, definitions, used_functions, stack,
                   definition_index, cleaned_functions, function_index, output,
                   function, instruction_pairs, index, next_label_index>>

Init ==
    /\ lines \in SeqsUpTo(ListingLines, MaxLines)
    /\ root_function_names \in SeqsUpTo(RootNames, MaxRoots)
    /\ pc = "scan"
    /\ definitions = <<>>
    /\ used_functions = <<>>
    /\ stack = <<>>
    /\ definition_index = 1
    /\ cleaned_functions = <<>>
    /\ function_index = 1
    /\ output = <<>>
    /\ function = None
    /\ instruction_pairs = <<>>
    /\ index = 1
    /\ next_label_index = 0

Next ==
    \/ GetFunctionDefinitions
    \/ UsedLoopEnd
    \/ UsedReturn
    \/ UsedUndefined
    \/ UsedAppend
    \/ ScanCall
    \/ ScanOther
    \/ ScanEnd
    \/ CleanUsed
    \/ CleanSkip
    \/ CleanReturn
    \/ WriteFunction
    \/ WriteReturn

Spec == Init /\ [][Next]_vars

\* --------------------------------------- get_cleaned_functions, step by step

\* The lines of the listings whose functions are cleaned one instruction at a time
CleanLines == {Line_blank, Line_header_f, Line_header_g, Line_jmp_0, Line_je_1, Line_ret}

\* The definition each name resolves to
FirstDefinitions(function_definitions) ==
    {find_function_definition(function_definitions, function_definitions[i].name)[1] :
        i \in 1..Len(function_definitions)}

\* What get_used_functions can leave in used_functions when no body holds a
\* call: the definitions of distinct root names, in the order of the roots.
UsedLists(function_definitions) ==
    {used \in SeqsUpTo(FirstDefinitions(function_definitions),
                       Cardinality(FirstDefinitions(function_definitions))) :
        \A i, j \in 1..Len(used) : used[i] = used[j] => i = j}

\* Lines 120-123 and 83-87: get_cleaned_function is called and builds its pairs.
CleanCall ==
    /\ pc = "clean"
    /\ definition_index <= Len(CleaningOrder(definitions, used_functions))
    /\ LET functionDefinition == CleaningOrder(definitions, used_functions)[definition_index]
           found == find_function_definition(used_functions, functionDefinition.name)
       IN  /\ found # None
           /\ IF BodyReadable(lines, found[1])
              THEN /\ function' = found
                   /\ instruction_pairs' = BuildPairs(lines, found[1])
                   /\ index' = 1
                   /\ next_label_index' = PassedLabelIndex(cleaned_functions)
                   /\ pc' = "rewrite"
              ELSE /\ pc' = "error"
                   /\ UNCHANGED <<function, instruction_pairs, index, next_label_index>>
    /\ UNCHANGED <<lines, root_function_names, definitions, used_functions, stack,
                   definition_index, cleaned_functions, function_index, output>>

AtIndex == pc = "rewrite" /\ index <= Len(instruction_pairs)

raw_instruction == instruction_pairs[index][1]

\* One iteration of the loop of line 88
Rewrite ==
    /\ instruction_pairs' = RewriteIndex(instruction_pairs, index, next_label_index).pairs
    /\ next_label_index' =
           RewriteIndex(instruction_pairs, index, next_label_index).next_label_index
    /\ index' = index + 1
    /\ UNCHANGED <<lines, root_function_names, pc, definitions, used_functions, stack,
                   definition_index, cleaned_functions, function_index, output, function>>

\* Line 90 is false
RewriteNonJump ==
    /\ AtIndex
    /\ ~is_jump(raw_instruction.operation)
    /\ Rewrite

\* The loop of line 93 ends without a match
RewriteMissing ==
    /\ AtIndex
    /\ is_jump(raw_instruction.operation)
    /\ FindTarget(instruction_pairs, raw_instruction.operands) = None
    /\ Rewrite

\* Lines 102-105: the target has no label yet
RewriteNew ==
    /\ AtIndex
    /\ is_jump(raw_instruction.operation)
    /\ LET target == FindTarget(instruction_pairs, raw_instruction.operands)
       IN  target # None /\ instruction_pairs[target[1]][2].label = None
    /\ Rewrite

\* Lines 99-101: the target carries a label
RewriteReuse ==
    /\ AtIndex
    /\ is_jump(raw_instruction.operation)
    /\ LET target == FindTarget(instruction_pairs, raw_instruction.operands)
       IN  target # None /\ instruction_pairs[target[1]][2].label # None
    /\ Rewrite

\* Lines 113-114 and 123: the cleaned function is returned and appended.
RewriteReturn ==
    /\ pc = "rewrite"
    /\ index > Len(instruction_pairs)
    /\ cleaned_functions' = Append(cleaned_functions, CleanedOf(function[1], instruction_pairs))
    /\ definition_index' = definition_index + 1
    /\ pc' = "clean"
    /\ UNCHANGED <<lines, root_function_names, definitions, used_functions, stack,
                   function_index, output,
                   function, instruction_pairs, index, next_label_index>>

InitClean ==
    /\ lines \in SeqsUpTo(CleanLines, MaxCleanLines)
    /\ root_function_names = <<>>
    /\ pc = "clean"
    /\ definitions = get_function_definitions(lines)
    /\ used_functions \in UsedLists(definitions)
    /\ stack = <<>>
    /\ definition_index = 1
    /\ cleaned_functions = <<>>
    /\ function_index = 1
    /\ output = <<>>
    /\ function = None
    /\ instruction_pairs = <<>>
    /\ index = 1
    /\ next_label_index = 0

NextClean ==
    \/ CleanCall
    \/ CleanSkip
    \/ CleanReturn
    \/ RewriteNonJump
    \/ RewriteMissing
    \/ RewriteNew
    \/ RewriteReuse
    \/ RewriteReturn
    \/ WriteFunction
    \/ WriteReturn

SpecClean == InitClean /\ [][NextClean]_vars

\* ================================================================== claims

Scanned == pc # "scan"

IsInstructionLine(i) == parse_instruction(lines[i + 1]) # None

\* A line the scanner can only read as a header
IsHeaderLine(i) == HeaderMatch(lines[i + 1]) /\ ~IsInstructionLine(i)

LineIndexes == 0..(Len(lines) - 1)

DefinitionAt(i) == \E k \in 1..Len(definitions) : definitions[k].line_start_index = i

\* ------------------------------------------------------------------------ C5
\* C5: get_function_definitions closes an open function at end of input too:
\* the first header of the listing, when instruction lines follow it up to the
\* last line of the listing, yields a FunctionDefinition with
\* its start index and the count of its lines.
C5_ClosedAtEndOfInput ==
    Scanned =>
        \A i \in LineIndexes :
            ( /\ IsHeaderLine(i)
              /\ i + 1 \in LineIndexes
              /\ \A j \in LineIndexes : j < i => ~HeaderMatch(lines[j + 1])
              /\ \A j \in LineIndexes : j > i => IsInstructionLine(j) )
            => \E k \in 1..Len(definitions) :
                   /\ definitions[k].line_start_index = i
                   /\ definitions[k].line_count = Len(lines) - i

\* ----------------------------------------------------------------------- C10
\* C10: a header line that directly follows the last instruction line of a
\* function body closes that function and opens its own: every such header
\* (with a later non-instruction line to close it) has a FunctionDefinition,
\* and the definitions are in order of appearance with disjoint line ranges.
C10_HeaderAfterBodyOpensFunction ==
    Scanned =>
        /\ \A i \in LineIndexes :
               ( /\ IsHeaderLine(i)
                 /\ i >= 2
                 /\ IsInstructionLine(i - 1)
                 /\ \E k \in 1..Len(definitions) :
                        definitions[k].line_start_index + definitions[k].line_count = i
                 /\ \E j \in LineIndexes : j > i /\ ~IsInstructionLine(j) )
               => DefinitionAt(i)
        /\ \A k \in 1..(Len(definitions) - 1) :
               definitions[k].line_start_index + definitions[k].line_count
                   <= definitions[k + 1].line_start_index

\* ------------------------------------------------------------------------ C7
RootHasDefinition ==
    \E r \in 1..Len(root_function_names) :
        find_function_definition(definitions, root_function_names[r]) # None

IsCall(i) ==
    IsInstructionLine(i) /\ parse_instruction(lines[i + 1])[1].operation = <<"c", "a", "l", "l">>

CallOperand(i) == parse_instruction(lines[i + 1])[1].operands

\* C7: write_cleaned_disasm never reaches an error state: every body line of
\* every recorded FunctionDefinition is inside the listing and parses as an
\* instruction, and an empty listing or a root list naming no definition
\* gives empty output.
C7_NeverRaises ==
    /\ pc # "error"
    /\ Scanned => \A k \in 1..Len(definitions) : BodyReadable(lines, definitions[k])
    /\ (pc = "done" /\ (lines = <<>> \/ ~RootHasDefinition)) => output = <<>>

\* A finished run that skipped a root without a definition and a call of an
\* undefined name inside a rendered function.
C7_Witness ==
    /\ pc = "done"
    /\ output # <<>>
    /\ \E r \in 1..Len(root_function_names) :
           find_function_definition(definitions, root_function_names[r]) = None
    /\ \E u \in 1..Len(used_functions) : \E i \in BodyRange(used_functions[u]) :
           IsCall(i) /\ find_function_definition(definitions, CallOperand(i)) = None

\* ------------------------------------------------------------------------ C2
RootSet == {root_function_names[r] : r \in 1..Len(root_function_names)}

\* The names the body of the definition of `name` calls
CalledNames(name) ==
    LET d == find_function_definition(definitions, name)
    IN  IF d = None THEN {} ELSE {CallOperand(i) : i \in {b \in BodyRange(d[1]) : IsCall(b)}}

RECURSIVE CallClosure(_)
CallClosure(names) ==
    LET more == names \cup UNION {CalledNames(n) : n \in names}
    IN  IF more = names THEN names ELSE CallClosure(more)

ReachableDefined ==
    {n \in CallClosure(RootSet) : find_function_definition(definitions, n) # None}

\* Positions of the `name:` lines in the output
NameLines == {o \in 1..Len(output) : output[o].kind = "name"}

Rendered(name) == {o \in NameLines : output[o].text = name}

DefinedNames == {definitions[k].name : k \in 1..Len(definitions)}

\* C2: the rendered functions are exactly the defined functions reachable from
\* the roots by call chains, each rendered exactly once, whatever the order or
\* repetition of the root names.
C2_RenderedAreTheReachable ==
    pc = "done" =>
        \A n \in DefinedNames \cup RootSet :
            Cardinality(Rendered(n)) = IF n \in ReachableDefined THEN 1 ELSE 0

\* ------------------------------------------------------------------------ C8
HeaderIndex(name) == find_function_definition(definitions, name)[1].line_start_index

\* C8: rendered functions appear in the order of their headers in the listing:
\* if f's header precedes g's and both are rendered, f is written before g.
C8_ListingOrder ==
    pc = "done" =>
        \A f, g \in DefinedNames :
            (Rendered(f) # {} /\ Rendered(g) # {} /\ HeaderIndex(f) < HeaderIndex(g))
            => Min(Rendered(f)) < Min(Rendered(g))

\* Two functions rendered, the later one of the listing discovered first.
C8_Witness ==
    /\ pc = "done"
    /\ Len(used_functions) >= 2
    /\ used_functions[1].line_start_index > used_functions[2].line_start_index
    /\ Rendered(used_functions[1].name) # {}
    /\ Rendered(used_functions[2].name) # {}

\* ------------------------------------------------------------------------ C6
Unused ==
    Cardinality({k \in 1..Len(definitions) :
        \A u \in 1..Len(used_functions) : used_functions[u] # definitions[k]})

\* What is left to do in one invocation: 2 per name not yet passed, 4 per body
\* line not yet scanned (a call pushes an invocation of weight 3), 1 to return.
FrameWork(frame) ==
    2 * (Len(frame.current_function_names) - frame.position + 1) + 1
    + (IF frame.d = None
       THEN 0
       ELSE 4 * (frame.d[1].line_start_index + frame.d[1].line_count - frame.line_index))

RECURSIVE StackWork(_)
StackWork(stk) == IF stk = <<>> THEN 0 ELSE FrameWork(Head(stk)) + StackWork(Tail(stk))

ResolveMeasure == (4 * Len(lines) + 1) * Unused + StackWork(stack)

AppendedOnce == \A u, v \in 1..Len(used_functions) :
    used_functions[u].name = used_functions[v].name => u = v

C9_EarlyReturn ==
    [][(InLoop68 /\ Top.position <= Len(Top.current_function_names)
            /\ find_function_definition(used_functions, current_function_name) # None)
        => (stack' = Front(stack) /\ used_functions' = used_functions)]_vars

\* The resolver has returned and a root with a definition was never added.
C9_Witness ==
    /\ pc = "done"
    /\ \E r \in 1..Len(root_function_names) :
           /\ find_function_definition(definitions, root_function_names[r]) # None
           /\ find_function_definition(used_functions, root_function_names[r]) = None

\* ------------------------------------------------------------------------ C1
\* The listing line of instruction k of cleaned function c
ListingLine(c, k) ==
    find_function_definition(used_functions, cleaned_functions[c].name)[1].line_start_index + k

LabelAt(c, k) == cleaned_functions[c].instructions[k].label

\* C1: within one run no two distinct labelled instructions carry the same
\* synthesized label, instructions of different rendered functions included.
C1_LabelsGloballyUnique ==
    \A c1, c2 \in 1..Len(cleaned_functions) :
        \A k1 \in 1..Len(cleaned_functions[c1].instructions) :
            \A k2 \in 1..Len(cleaned_functions[c2].instructions) :
                (LabelAt(c1, k1) # None /\ LabelAt(c1, k1) = LabelAt(c2, k2))
                => ListingLine(c1, k1) = ListingLine(c2, k2)

\* ------------------------------------------------------------------------ C3
LoopDone == pc = "rewrite" /\ index > Len(instruction_pairs)

PairIndexes == 1..Len(instruction_pairs)

IsJumpAt(k) == is_jump(instruction_pairs[k][1].operation)

\* The positions whose offset token equals the operand text of the jump at k
Targets(k) ==
    {t \in PairIndexes :
        instruction_pairs[t][1].byte_offset = instruction_pairs[k][1].operands}

\* C3: when the loop of get_cleaned_function is over, every jump whose operand
\* text is the offset token of an instruction of the function (itself
\* included) has as cleaned operand the label of the first such instruction.
C3_JumpCarriesTargetLabel ==
    LoopDone =>
        \A k \in PairIndexes :
            (IsJumpAt(k) /\ Targets(k) # {})
            => /\ instruction_pairs[Min(Targets(k))][2].label # None
               /\ instruction_pairs[k][2].operands
                      = instruction_pairs[Min(Targets(k))][2].label[1]

\* ------------------------------------------------------------------------ C4
MissingTarget(k) == IsJumpAt(k) /\ Targets(k) = {}

\* C4: a jump whose operand text is no offset token of its function keeps its
\* operand text, and the iteration that handles it changes no pair (no label
\* appears), leaves the counter alone and raises nothing.
C4_MissingTargetLeftAlone ==
    [][ /\ (AtIndex /\ MissingTarget(index))
            => /\ instruction_pairs' = instruction_pairs
               /\ next_label_index' = next_label_index
               /\ pc' = "rewrite"
        /\ pc' = "rewrite"
            => \A k \in 1..Len(instruction_pairs') :
                   (is_jump(instruction_pairs'[k][1].operation)
                    /\ \A t \in 1..Len(instruction_pairs') :
                           instruction_pairs'[t][1].byte_offset
                               # instruction_pairs'[k][1].operands)
                   => instruction_pairs'[k][2].operands = instruction_pairs'[k][1].operands
      ]_vars

\* The loop is over for a function with a jump without target and a jump
\* whose target got a label.
C4_Witness ==
    /\ LoopDone
    /\ \E k \in PairIndexes : MissingTarget(k)
    /\ \E k \in PairIndexes : instruction_pairs[k][2].label # None

====
